---------------------------- MODULE Spec2Model ----------------------------
(***************************************************************************)
(* Model of get_data.py: the historical fetch                              *)
(* (get_historical_data_for_event) and the best-window search              *)
(* (find_best_dates) built on it.                                          *)
(*                                                                         *)
(* Dates are proleptic Gregorian ordinals (Python's date.toordinal()).     *)
(* A provider date key "YYYYMMDD" is the integer YYYYMMDD: the strings     *)
(* have a fixed width, so the two orders and equalities coincide.          *)
(* A DataFrame is the set of its rows: the rows come from the keys of one  *)
(* dict, so they are distinct, and nothing modelled reads their order.     *)
(* An optional value (None / float('inf')) is a sequence of length 0 or 1. *)
(*                                                                         *)
(* The provider's values are numbers, and dates stay far from date.max, so *)
(* nothing raises inside find_best_dates itself: its except clause (lines  *)
(* 212-214) is not reached.  datetime.now().year does not change during a  *)
(* call.                                                                   *)
(***************************************************************************)
EXTENDS Integers, Sequences, FiniteSets, TLC

VARIABLES
    now_year,        \* datetime.now().year, read by every fetch
    \* ---- find_best_dates ----
    pc,              \* position in find_best_dates
    arg_end,         \* the search_end the caller passed (search_end is reassigned)
    search_start, search_end, event_duration, hot_thresh, rain_thresh,
    feas, pattern, late,  \* what the data source does during this call
    hist_df, best_score, best_start, start_offset, iterations,
    result,          \* << >> is (None, None); <<s, e>> is (best_start, best_end)
    requests,        \* the (event_start, event_end) of every fetch issued, in order
    \* ---- get_historical_data_for_event ----
    f_pc, event_start, event_end, start_date, end_date, response, df

searchVars == <<pc, arg_end, search_start, search_end, event_duration, hot_thresh,
                rain_thresh, feas, pattern, late, hist_df, best_score, best_start,
                start_offset, iterations, result, requests>>
fetchVars == <<f_pc, event_start, event_end, start_date, end_date, response, df>>
vars == <<now_year, searchVars, fetchVars>>

---------------------------------------------------------------------------
(* Calendar: datetime.date arithmetic and strftime('%m%d').                *)

IsLeap(y) == y % 4 = 0 /\ (y % 100 # 0 \/ y % 400 = 0)

DaysInMonth(y, m) ==
    IF m = 2 THEN (IF IsLeap(y) THEN 29 ELSE 28)
    ELSE IF m \in {4, 6, 9, 11} THEN 30 ELSE 31

\* days of the year before the first of month m
DaysBeforeMonth(y, m) ==
    <<0, 31, 59, 90, 120, 151, 181, 212, 243, 273, 304, 334>>[m]
    + (IF m > 2 /\ IsLeap(y) THEN 1 ELSE 0)

DaysBeforeYear(y) ==
    (y - 1) * 365 + ((y - 1) \div 4) - ((y - 1) \div 100) + ((y - 1) \div 400)

\* date(y, m, d).toordinal()
Ymd2Ord(y, m, d) == DaysBeforeYear(y) + DaysBeforeMonth(y, m) + d

\* date.fromordinal(ordinal), as [y, m, d]
Ord2Ymd(ordinal) ==
    LET n0   == ordinal - 1
        n400 == n0 \div 146097
        r400 == n0 % 146097
        n100 == r400 \div 36524
        r100 == r400 % 36524
        n4   == r100 \div 1461
        r4   == r100 % 1461
        n1   == r4 \div 365
        n    == r4 % 365
        year == n400 * 400 + 1 + n100 * 100 + n4 * 4 + n1
    IN  IF n1 = 4 \/ n100 = 4
        THEN [y |-> year - 1, m |-> 12, d |-> 31]
        ELSE LET guess == (n + 50) \div 32
                 month == IF DaysBeforeMonth(year, guess) > n THEN guess - 1 ELSE guess
             IN  [y |-> year, m |-> month, d |-> n - DaysBeforeMonth(year, month) + 1]

\* date.strftime('%m%d'): the year is dropped
strftime_md(date) == LET c == Ord2Ymd(date) IN c.m * 100 + c.d

\* date + timedelta(days=k)
PlusDays(date, k) == date + k

\* the month-day part of a key "YYYYMMDD"
KeyMd(key) == key % 10000

\* a key names a day of the calendar
ValidKey(key) ==
    LET y == key \div 10000
        m == (key % 10000) \div 100
        d == key % 100
    IN  m \in 1..12 /\ d \in 1..DaysInMonth(y, m)

\* every day of the calendar from key a to key b, as keys
KeysBetween(a, b) ==
    {k \in {y * 10000 + m * 100 + d :
                y \in (a \div 10000)..(b \div 10000), m \in 1..12, d \in 1..31} :
        a <= k /\ k <= b /\ ValidKey(k)}

---------------------------------------------------------------------------
(* get_historical_data_for_event                                           *)

\* the provider's missing-data marker
Missing == -999

\* start_year, end_year and the two request stamps
end_year(now) == now - 1
start_year(now) == end_year(now) - 19
FormatStart(now, es) == start_year(now) * 10000 + strftime_md(es)
FormatEnd(now, ee) == end_year(now) * 10000 + strftime_md(ee)

\* a provider answer: kind "error" is anything that raises inside the try
\* (transport failure, HTTP error status, a body that is not JSON), kind
\* "nokeys" a JSON body without properties/parameter, kind "ok" a body with
\* the two channels (an absent channel is the empty dict, as .get(.., {}))
Answer(kind, temps, precips) == [kind |-> kind, T2M_MAX |-> temps, PRECTOTCORR |-> precips]
NoDict == << >>
ErrorAnswer == Answer("error", NoDict, NoDict)
NoKeysAnswer == Answer("nokeys", NoDict, NoDict)

\* `if temp != -999`
KeepTempMutant(temp) == TRUE
KeepTemp(temp) == temp # Missing

\* `precip = precip_data.get(date_str, 0)`; `precip if precip != -999 else 0`
CleanPrecip(precip_data, date_str) ==
    LET precip == IF date_str \in DOMAIN precip_data THEN precip_data[date_str] ELSE 0
    IN  IF precip # Missing THEN precip ELSE 0

\* the loop over temp_data.items() and the DataFrame built from it
BuildFrame(temp_data, precip_data) ==
    {[date |-> k,
      temperature_2m_max |-> temp_data[k],
      precipitation_sum |-> CleanPrecip(precip_data, k)] :
        k \in {d \in DOMAIN temp_data : KeepTemp(temp_data[d])}}

\* what the function returns for a provider answer
Frame(resp) ==
    CASE resp.kind = "error"  -> {}
      [] resp.kind = "nokeys" -> {}
      [] OTHER                -> BuildFrame(resp.T2M_MAX, resp.PRECTOTCORR)

---------------------------------------------------------------------------
(* The data source as find_best_dates meets it.  Each fetch is answered   *)
(* according to a behaviour; the answer carries the first and last day of  *)
(* the requested range.                                                    *)
(*   error   the request raises                 -> empty frame             *)
(*   missing every temperature is the sentinel  -> empty frame             *)
(*   calm    one row: 32 degrees, rain missing  -> non-empty frame         *)
(*   hot     two rows: 35/32 degrees, 15/10 mm  -> non-empty frame         *)
(*   hotwet  two rows: 35/33 degrees, 15/- mm   -> non-empty frame         *)

Respond(behaviour, sd, ed) ==
    CASE behaviour = "error"   -> ErrorAnswer
      [] behaviour = "missing" -> Answer("ok", (sd :> Missing) @@ (ed :> Missing),
                                               (sd :> 0) @@ (ed :> 15))
      [] behaviour = "calm"    -> Answer("ok", (sd :> 32) @@ (ed :> Missing),
                                               (sd :> Missing) @@ (ed :> 15))
      [] behaviour = "hot"     -> Answer("ok", (sd :> 35) @@ (ed :> 32),
                                               (sd :> 15) @@ (ed :> 10))
      [] behaviour = "hotwet"  -> Answer("ok", (sd :> 35) @@ (ed :> 33),
                                               (sd :> 15) @@ (ed :> Missing))

\* get_historical_data_for_event(latitude, longitude, event_start, event_end)
\* when the provider behaves as `behaviour`
HistoricalData(now, es, ee, behaviour) ==
    Frame(Respond(behaviour, FormatStart(now, es), FormatEnd(now, ee)))

---------------------------------------------------------------------------
(* find_best_dates                                                         *)

max_search_days == 90
max_iterations == 50

None == << >>
inf == << >>
Some(x) == <<x>>

\* (search_end - search_start).days
Days(a, b) == b - a

Min(a, b) == IF a < b THEN a ELSE b

\* `if search_days > max_search_days: search_end = search_start + timedelta(days=max_search_days)`
ClampMutant(s, e) == e
Clamp(s, e) == IF Days(s, e) > max_search_days THEN PlusDays(s, max_search_days) ELSE e

\* the stop of range(0, min((search_end - search_start).days - event_duration + 1, max_iterations))
LoopStopMutant(s, e, duration) == Days(s, e) - duration + 1
LoopStop(s, e, duration) == Min(Days(s, e) - duration + 1, max_iterations)

\* candidate_start and candidate_end of an offset
CandidateStart(s, offset) == PlusDays(s, offset)
CandidateEnd(cs, duration) == PlusDays(cs, duration - 1)

\* `best_end = best_start + timedelta(days=event_duration - 1)`
BestEndMutant(bs, duration) == PlusDays(bs, duration)
BestEnd(bs, duration) == PlusDays(bs, duration - 1)

\* hot_days + rainy_days
Score(frame, hot, rain) ==
    Cardinality({r \in frame : r.temperature_2m_max > hot})
    + Cardinality({r \in frame : r.precipitation_sum > rain})

\* `if hist_df.empty: return None, None`
NoHistoryMutant(frame) == FALSE
NoHistory(frame) == frame = {}

\* `if candidate_df.empty: continue`
SkipsMutant(frame) == FALSE
Skips(frame) == frame = {}

\* `if score < best_score`
BetterMutant(score, best) == best = inf \/ score <= best[1]
Better(score, best) == best = inf \/ score < best[1]

\* the behaviour of the data source at one candidate offset: periodic, except
\* from the last offset the loop can reach
BehaviourAt(offset) ==
    IF offset >= max_iterations - 1 THEN late ELSE pattern[(offset % Len(pattern)) + 1]

---------------------------------------------------------------------------
(* Inputs                                                                  *)

Period == 4

NowYears == {2026}
FetchNowYears == {2025, 2026}
SearchStarts == {Ymd2Ord(2026, 11, 20)}
Spans == {-1, 0, 4, 5, 8, 9, 90, 200}
Durations == {0, 1, 5, 10, 92}
HotThresholds == {32}
RainThresholds == {10}
FeasBehaviours == {"error", "missing", "hot"}
CandBehaviours == {"error", "hot", "hotwet"}
LateBehaviours == {"error", "calm", "hot", "hotwet"}

EventStarts == {Ymd2Ord(2027, 6, 1), Ymd2Ord(2026, 12, 30), Ymd2Ord(2028, 2, 27)}
EventLengths == {1, 3, 5}

FetchIdle ==
    /\ f_pc = "idle"
    /\ event_start = 0 /\ event_end = 0
    /\ start_date = 0 /\ end_date = 0
    /\ response = NoKeysAnswer
    /\ df = {}

SearchIdle ==
    /\ pc = "idle"
    /\ search_start = 0 /\ search_end = 0 /\ arg_end = 0
    /\ event_duration = 0 /\ hot_thresh = 0 /\ rain_thresh = 0
    /\ feas = "error" /\ pattern = << >> /\ late = "error"
    /\ hist_df = {} /\ best_score = inf /\ best_start = None
    /\ start_offset = 0 /\ iterations = 0
    /\ result = None /\ requests = << >>

---------------------------------------------------------------------------
(* find_best_dates, step by step                                           *)

Init ==
    /\ now_year \in NowYears
    /\ pc = "start"
    /\ search_start \in SearchStarts
    /\ \E span \in Spans : search_end = PlusDays(search_start, span)
    /\ arg_end = search_end
    /\ event_duration \in Durations
    /\ hot_thresh \in HotThresholds
    /\ rain_thresh \in RainThresholds
    /\ feas \in FeasBehaviours
    /\ pattern \in [1..Period -> CandBehaviours]
    /\ late \in LateBehaviours
    /\ hist_df = {} /\ best_score = inf /\ best_start = None
    /\ start_offset = 0 /\ iterations = 0
    /\ result = None /\ requests = << >>
    /\ FetchIdle

\* lines 168-171
ClampRange ==
    /\ pc = "start"
    /\ search_end' = Clamp(search_start, search_end)
    /\ pc' = "feasibility"
    /\ UNCHANGED <<now_year, arg_end, search_start, event_duration, hot_thresh, rain_thresh,
                   feas, pattern, late, hist_df, best_score, best_start, start_offset,
                   iterations, result, requests, fetchVars>>

\* lines 174-182: the fetch for the whole search window; an empty frame returns
FeasibilityFetch ==
    /\ pc = "feasibility"
    /\ requests' = Append(requests, <<search_start, search_end>>)
    /\ hist_df' = HistoricalData(now_year, search_start, search_end, feas)
    /\ IF NoHistory(hist_df')
       THEN /\ result' = None
            /\ pc' = "done"
       ELSE /\ result' = result
            /\ pc' = "loop"
    /\ best_score' = inf
    /\ best_start' = None
    /\ iterations' = 0
    /\ start_offset' = 0
    /\ UNCHANGED <<now_year, arg_end, search_start, search_end, event_duration,
                   hot_thresh, rain_thresh, feas, pattern, late, fetchVars>>

\* lines 185-204: one pass of the loop body
Candidate ==
    /\ pc = "loop"
    /\ start_offset < LoopStop(search_start, search_end, event_duration)
    /\ LET candidate_start == CandidateStart(search_start, start_offset)
           candidate_end   == CandidateEnd(candidate_start, event_duration)
           candidate_df    == HistoricalData(now_year, candidate_start, candidate_end,
                                             BehaviourAt(start_offset))
           score           == Score(candidate_df, hot_thresh, rain_thresh)
       IN  /\ requests' = Append(requests, <<candidate_start, candidate_end>>)
           /\ IF ~Skips(candidate_df) /\ Better(score, best_score)
              THEN /\ best_score' = Some(score)
                   /\ best_start' = Some(candidate_start)
              ELSE UNCHANGED <<best_score, best_start>>
    /\ iterations' = iterations + 1
    /\ start_offset' = start_offset + 1
    /\ UNCHANGED <<now_year, pc, arg_end, search_start, search_end, event_duration,
                   hot_thresh, rain_thresh, feas, pattern, late, hist_df, result, fetchVars>>

\* lines 206-210: the range is exhausted
Return ==
    /\ pc = "loop"
    /\ ~(start_offset < LoopStop(search_start, search_end, event_duration))
    /\ result' = IF best_start # None
                 THEN <<best_start[1], BestEnd(best_start[1], event_duration)>>
                 ELSE None
    /\ pc' = "done"
    /\ UNCHANGED <<now_year, arg_end, search_start, search_end, event_duration,
                   hot_thresh, rain_thresh, feas, pattern, late, hist_df, best_score,
                   best_start, start_offset, iterations, requests, fetchVars>>

Next == ClampRange \/ FeasibilityFetch \/ Candidate \/ Return

Spec == Init /\ [][Next]_vars

---------------------------------------------------------------------------
(* get_historical_data_for_event, step by step                             *)

\* every dict over some of `keys` with values in `values`
Dicts(keys, values) == UNION {[d -> values] : d \in SUBSET keys}

\* the provider returning every day between the two stamps; some days carry
\* the sentinel or lack a precipitation entry
FullAnswer(sd, ed) ==
    LET days == KeysBetween(sd, ed)
    IN  Answer("ok",
               [k \in days |-> IF k % 100 = 13 THEN Missing ELSE 20 + (k % 100)],
               [k \in {x \in days : x % 100 # 7} |-> IF k % 100 = 21 THEN Missing ELSE 3])

\* what the provider may answer to one request
ProviderAnswers(sd, ed) ==
    {ErrorAnswer, NoKeysAnswer, FullAnswer(sd, ed)}
    \cup {Answer("ok", t, p) : t \in Dicts({sd, ed}, {Missing, 32, 35}),
                               p \in Dicts({sd, ed}, {Missing, 0, 15})}

FetchInit ==
    /\ now_year \in FetchNowYears
    /\ f_pc = "start"
    /\ event_start \in EventStarts
    /\ \E len \in EventLengths : event_end = PlusDays(event_start, len - 1)
    /\ start_date = 0 /\ end_date = 0
    /\ response = NoKeysAnswer
    /\ df = {}
    /\ SearchIdle

\* lines 23-28
FormatDates ==
    /\ f_pc = "start"
    /\ start_date' = FormatStart(now_year, event_start)
    /\ end_date' = FormatEnd(now_year, event_end)
    /\ f_pc' = "request"
    /\ UNCHANGED <<now_year, event_start, event_end, response, df, searchVars>>

\* lines 43-46
Request ==
    /\ f_pc = "request"
    /\ response' \in ProviderAnswers(start_date, end_date)
    /\ f_pc' = "received"
    /\ UNCHANGED <<now_year, event_start, event_end, start_date, end_date, df, searchVars>>

\* lines 75-77
Except ==
    /\ f_pc = "received"
    /\ response.kind = "error"
    /\ df' = Frame(response)
    /\ f_pc' = "done"
    /\ UNCHANGED <<now_year, event_start, event_end, start_date, end_date, response, searchVars>>

\* lines 48-73
Parse ==
    /\ f_pc = "received"
    /\ response.kind # "error"
    /\ df' = Frame(response)
    /\ f_pc' = "done"
    /\ UNCHANGED <<now_year, event_start, event_end, start_date, end_date, response, searchVars>>

FetchNext == FormatDates \/ Request \/ Except \/ Parse

FetchSpec == FetchInit /\ [][FetchNext]_vars

---------------------------------------------------------------------------
(* Vocabulary of the properties                                            *)

Done == pc = "done"

\* the outcome the caller sees
Outcome == IF result = None THEN "not_found" ELSE "window"

ValidInput == event_duration >= 1 /\ search_start <= arg_end

\* the end of the search range after truncation to 90 days
ClampedEnd ==
    IF arg_end - search_start > max_search_days
    THEN search_start + max_search_days
    ELSE arg_end

\* the offsets whose candidate fetch has been issued
Fetched == 0..(Len(requests) - 2)

\* what the data source returns for the candidate at an offset
CandidateFrame(offset) ==
    HistoricalData(now_year, search_start + offset,
                   search_start + offset + event_duration - 1, BehaviourAt(offset))

\* the risk score of a series: the rows strictly above the hot threshold plus
\* the rows strictly above the rain threshold
RiskScore(frame) ==
    Cardinality({r \in frame : ~(r.temperature_2m_max <= hot_thresh)})
    + Cardinality({r \in frame : ~(r.precipitation_sum <= rain_thresh)})

CandidateScore(offset) == RiskScore(CandidateFrame(offset))

\* the fetched offsets whose series is non-empty
Usable == {o \in Fetched : CandidateFrame(o) # {}}

\* every source answer of this call is non-empty
SourceNeverEmpty ==
    /\ feas \notin {"error", "missing"}
    /\ late # "error"
    /\ \A i \in DOMAIN pattern : pattern[i] # "error"

\* the days requested by the fetches issued so far
RequestedDays == UNION {r[1]..r[2] : r \in {requests[i] : i \in DOMAIN requests}}

---------------------------------------------------------------------------
(* Properties                                                              *)

\* C1: a search range spanning exactly event_duration days, with a source that
\* is never empty, yields one candidate fetch (offset 0) and returns the window
\* search_start .. search_end.
C1_ExactSpanReturnsWindow ==
    (Done /\ event_duration >= 1 /\ arg_end - search_start + 1 = event_duration
          /\ SourceNeverEmpty)
        => (result = <<search_start, arg_end>> /\ Len(requests) = 2)

\* C2: with event_duration < 1 or search_start > search_end no fetch is ever
\* issued, and the call ends with an InvalidInput outcome, which is neither
\* not_found nor a window.
C2_InvalidInputReported ==
    ~ValidInput => (requests = << >> /\ (Done => Outcome = "InvalidInput"))

\* C3: a returned window is a fetched candidate with a non-empty series whose
\* score is minimal among the fetched candidates with a non-empty series, and
\* it has the lowest offset among those of minimal score.
C3_MinimalScoreLowestOffset ==
    (Done /\ result # None) =>
        LET best   == result[1] - search_start
            usable == Usable
            score  == [o \in usable |-> CandidateScore(o)]
        IN  /\ best \in usable
            /\ \A o \in usable :
                  /\ score[best] <= score[o]
                  /\ (score[o] = score[best] => best <= o)

\* C3 witness: scores 2 and 2 at offsets 3 and 7, every other candidate higher,
\* and the window at offset 3 is returned.
C3_Witness ==
    /\ Done /\ result # None
    /\ Fetched = 0..7
    /\ CandidateScore(3) = 2 /\ CandidateScore(7) = 2
    /\ \A o \in Usable \ {3, 7} : CandidateScore(o) > 2
    /\ Usable = Fetched
    /\ result[1] = search_start + 3

\* C4: with event_duration >= 1 a call issues at most 51 fetches: the first is
\* the feasibility fetch of the (clamped) range, the others, at most 50, are
\* candidate fetches.
C4_AtMost51Fetches ==
    event_duration >= 1 =>
        /\ Len(requests) <= 1 + max_iterations
        /\ Len(requests) >= 1 => requests[1] = <<search_start, ClampedEnd>>
        /\ \A i \in 2..Len(requests) : requests[i][1] = search_start + (i - 2)

\* C4 witness: event_duration 1 over a 200-day range ends with exactly 51 fetches.
C4_Witness ==
    /\ Done /\ event_duration = 1 /\ arg_end - search_start = 200
    /\ Len(requests) = 1 + max_iterations

\* C5: when the range exceeds 90 days and event_duration >= 1, no fetch asks
\* for a day after search_start + 90 (or before search_start), so at most 91
\* distinct days have been requested when the call returns.
C5_ClampedTo91Days ==
    (arg_end - search_start > max_search_days /\ event_duration >= 1) =>
        /\ \A i \in DOMAIN requests :
              /\ search_start <= requests[i][1]
              /\ requests[i][2] <= search_start + max_search_days
        /\ Done => Cardinality(RequestedDays) <= max_search_days + 1

\* C5 witness: a 200-day range whose feasibility fetch asked for exactly the 91
\* days search_start .. search_start + 90, followed by candidate fetches.
C5_Witness ==
    /\ Done /\ arg_end - search_start = 200 /\ event_duration = 10
    /\ Len(requests) = 1 + max_iterations
    /\ requests[1] = <<search_start, search_start + max_search_days>>
    /\ Cardinality(RequestedDays) = max_search_days + 1

\* C6: the feasibility fetch of the clamped range comes first and is evaluated
\* before any candidate fetch; if its series is empty the call returns
\* not_found after exactly one fetch.
C6_FeasibilityFirst ==
    /\ pc \in {"start", "feasibility"} => requests = << >>
    /\ Len(requests) >= 1 => requests[1] = <<search_start, ClampedEnd>>
    /\ Len(requests) >= 2 => hist_df # {}
    /\ (pc \notin {"start", "feasibility"} /\ hist_df = {})
           => (Done /\ result = None /\ Len(requests) = 1)

\* C6 witness: the feasibility fetch failed although candidates had data.
C6_Witness ==
    /\ Done /\ hist_df = {} /\ feas = "error" /\ Len(requests) = 1
    /\ ValidInput
    /\ LoopStop(search_start, search_end, event_duration) > 0
    /\ CandidateFrame(0) # {}

C10_WindowInsideRange ==
    (Done /\ ValidInput /\ result # None) =>
        /\ result[1] <= result[2]
        /\ result[2] - result[1] + 1 = event_duration
        /\ search_start <= result[1]
        /\ result[1] <= search_start + (max_iterations - 1)
        /\ result[2] <= ClampedEnd

\* C10 witness: the window 49 days after search_start is returned.
C10_Witness ==
    /\ Done /\ ValidInput /\ result # None
    /\ result[1] = search_start + (max_iterations - 1)

\* the month-day md lies in the calendar window from month-day a to month-day b
\* (a window may run over the end of a year)
InCalendarWindow(md, a, b) ==
    IF a <= b THEN a <= md /\ md <= b ELSE a <= md \/ md <= b

FetchDone == f_pc = "done"

\* C8: the returned series holds no sentinel; a date whose temperature is
\* the sentinel or absent has no row, every other date of the temperature
\* channel has exactly one row, with its precipitation, or 0 when that is the
\* sentinel or absent; a failed request returns the empty series.
C8_SentinelsFiltered ==
    FetchDone =>
        /\ \A r \in df : r.temperature_2m_max # Missing /\ r.precipitation_sum # Missing
        /\ response.kind = "error" => df = {}
        /\ response.kind = "ok" =>
              LET temps   == response.T2M_MAX
                  precips == response.PRECTOTCORR
              IN  /\ {r.date : r \in df} = {k \in DOMAIN temps : temps[k] # Missing}
                  /\ Cardinality(df) = Cardinality({r.date : r \in df})
                  /\ \A r \in df :
                        /\ r.temperature_2m_max = temps[r.date]
                        /\ r.precipitation_sum =
                              IF r.date \in DOMAIN precips /\ precips[r.date] # Missing
                              THEN precips[r.date]
                              ELSE 0

\* C8 witness: one date dropped for a sentinel temperature, the other kept
\* with a sentinel precipitation turned into 0.
C8_Witness ==
    /\ FetchDone /\ response.kind = "ok"
    /\ DOMAIN response.T2M_MAX = {start_date, end_date}
    /\ response.T2M_MAX[start_date] = Missing
    /\ response.T2M_MAX[end_date] = 35
    /\ DOMAIN response.PRECTOTCORR = {start_date, end_date}
    /\ response.PRECTOTCORR[end_date] = Missing
    /\ df = {[date |-> end_date, temperature_2m_max |-> 35, precipitation_sum |-> 0]}

\* C9: when the provider returns every day between the two request stamps,
\* every returned record's month-day lies in the calendar window
\* event_start .. event_end.
C9_OnlyWindowDays ==
    (FetchDone /\ response = FullAnswer(start_date, end_date)) =>
        \A r \in df :
            InCalendarWindow(KeyMd(r.date), strftime_md(event_start), strftime_md(event_end))

=============================================================================
